---- MODULE Spec2Model ----
(***************************************************************************)
(* Model of the SVG-to-PPTX tool server (src/mcp-server-svg2pptx/main.py    *)
(* and the slide-check fragment of insert_svg_to_pptx in src/svg_module.py).*)
(*                                                                         *)
(* The file system maps a path to a file.  A file is absent, a corrupt     *)
(* (non-zip) file, or a presentation: a sequence of slides.  A slide has   *)
(* an identifier and the set of graphics placed on it.                     *)
(*                                                                         *)
(* Six specifications:                                                     *)
(*   Spec       - insert_blank_slide and delete_slide called one after the *)
(*                other, each call one atomic action;                      *)
(*   SpecSingle - insert_svg called with a single path, the call one       *)
(*                atomic action;                                           *)
(*   SpecBatch  - one call of insert_svg with a list of paths, one action  *)
(*                per stage of the handler: preprocessing, entry of the    *)
(*                batch branch, one loop iteration, one cleanup iteration, *)
(*                return;                                                  *)
(*   SpecUnits  - one application of a projector or helper of              *)
(*                UnitConverter (converters.py) to one expression;         *)
(*   SpecNames  - a default output name synthesized twice from a base name *)
(*                and cleaned by cleanup_filename, and cleanup_filename    *)
(*                applied to a name and to its own result;                 *)
(*   SpecRuns   - two calls of insert_svg with a list of paths, their      *)
(*                loop and cleanup iterations interleaved.                 *)
(***************************************************************************)
EXTENDS Integers, Sequences, FiniteSets, TLC

\* Bounds of the model.
MaxItems == 3
MaxLen == 2
MaxStart == 2
MaxCalls == 2
MaxInserts == 1
MaxFaults == 1

VARIABLES
  fs,               \* path -> file
  calls,            \* Spec: number of tool calls made so far
  last,             \* Spec: the last tool call, its arguments and what it returned
  pc,               \* SpecBatch: stage of the insert_svg handler
  args,             \* SpecBatch: arguments of the insert_svg call
  i,                \* SpecBatch: loop variable of the batch loop / cleanup loop
  current_input,    \* SpecBatch: main.py current_input
  success_count,    \* SpecBatch: main.py success_count
  result_messages,  \* SpecBatch: main.py result_messages
  attempts,         \* SpecBatch: the calls of process_single_svg made, in order
  logged,           \* SpecBatch: scratch files whose removal failed (printed)
  ret,              \* SpecBatch: what insert_svg returned
  faults            \* SpecBatch: number of steps that met a failure of the environment

vars == <<fs, calls, last, pc, args, i, current_input, success_count,
          result_messages, attempts, logged, ret, faults>>

----------------------------------------------------------------------------
(* Paths and files *)

\* "" : no path given
NoPath == <<"", 0>>
PptxPath == <<"pptx", 0>>
\* output directory / presentation_<timestamp>.pptx
DefaultPptxPath == <<"default_pptx", 0>>
OutPath == <<"out", 0>>
\* output directory / <base>_<op>_<timestamp>.pptx, the synthesized default
DefaultOutPath == <<"default_out", 0>>
\* f"{temp_base}_step_{i}.pptx"
TempPath(k) == <<"tmp_step", k>>

TempPaths == {TempPath(k) : k \in 0..MaxItems}
Paths == {PptxPath, DefaultPptxPath, OutPath, DefaultOutPath} \cup TempPaths

Absent == [kind |-> "absent", slides |-> <<>>]
Corrupt == [kind |-> "corrupt", slides |-> <<>>]
Pptx(slides) == [kind |-> "pptx", slides |-> slides]

Max(S) == CHOOSE x \in S : \A y \in S : y <= x

Ids(slides) == {slides[k].id : k \in 1..Len(slides)}

\* prs.slides.add_slide(layout): a new blank slide, with a fresh identifier,
\* at the end of the slide list.
AddSlide(slides) ==
  Append(slides, [id |-> Max(Ids(slides) \cup {0}) + 1, gfx |-> {}])

RECURSIVE AddSlides(_, _)
AddSlides(slides, k) ==
  IF k <= 0 THEN slides ELSE AddSlides(AddSlide(slides), k - 1)

\* A presentation of n blank slides.
Blank(n) == AddSlides(<<>>, n)

----------------------------------------------------------------------------
(* Single-item insertion: insert_svg_to_pptx.                               *)
(* Only its slide check is in src/svg_module.py; what precedes it (create  *)
(* the document when it does not exist) and what follows it (placement of  *)
(* the graphic, persisting to output_path) follow sections 4.4 and 6 of    *)
(* the specification.                                                      *)

\* What goes wrong during one insertion.  Every failure ends the call, so a
\* call meets at most one: the creation of a directory, create_svg_file,
\* the creation of the missing document, opening the document (an I/O
\* error), prs.save in the slide check, the recreation of the document, or
\* the placement (which returns False or raises).
InsertFaults ==
  {"none", "pptx_dir", "output_dir", "svg_dir", "svg_create", "doc_create",
   "open", "save", "recreate", "place_false", "place_raise"}

\* str(e) of the exception Presentation(pptx_path) raises, "" when none.
OpenError(file, openOk) ==
  IF ~openOk THEN "Permission denied"
  ELSE IF file.kind = "absent" THEN "Package not found"
  ELSE IF file.kind = "corrupt" THEN "File is not a zip file"
  ELSE ""

\* A slide check that takes every error for an invalid container.
IsInvalidContainer_AnyError(msg) == TRUE

\* The test of svg_module.py line 37 on the messages of the model.
IsInvalidContainer(msg) ==
  msg \in {"File is not a zip file", "document not found", "Package not found"}

\* A slide check that adds slide_number slides, not the missing ones.
EnsureSlides_AddsTarget(slides, slide_number) ==
  IF slide_number > Len(slides)
    THEN [slides |-> AddSlides(slides, slide_number), save |-> TRUE]
    ELSE [slides |-> slides, save |-> FALSE]

\* svg_module.py lines 7-32 on the opened presentation: the slides after the
\* check, and whether the check saves them to pptx_path.
EnsureSlides(slides, slide_number) ==
  IF slide_number > Len(slides)
    THEN [slides |-> AddSlides(slides, slide_number - Len(slides)), save |-> TRUE]
    ELSE IF Len(slides) = 0
      THEN [slides |-> AddSlide(slides), save |-> TRUE]
      ELSE [slides |-> slides, save |-> FALSE]

\* The slide check (svg_module.py lines 2-65).  go: the function goes on to
\* placement; otherwise it returns (False, "\n".join(error_log)).
\* written: the paths this step saved to.
SlideCheck(f, pptx_path, slide_number, fault) ==
  LET err == OpenError(f[pptx_path], fault # "open")
      ens == EnsureSlides(f[pptx_path].slides, slide_number)
  IN  IF err = ""
        THEN IF ~ens.save
               THEN [fs |-> f, go |-> TRUE, error_log |-> <<>>, written |-> {}]
               ELSE IF fault # "save"
                 THEN [fs |-> [f EXCEPT ![pptx_path] = Pptx(ens.slides)],
                       go |-> TRUE, error_log |-> <<"slides added">>,
                       written |-> {pptx_path}]
                 ELSE \* prs.save raises inside the try: not an invalid container
                      [fs |-> f, go |-> FALSE,
                       error_log |-> <<"slides added", "check failed: save">>,
                       written |-> {}]
        ELSE IF IsInvalidContainer(err)
          THEN IF fault # "recreate"
                 THEN [fs |-> [f EXCEPT ![pptx_path] = Pptx(Blank(slide_number))],
                       go |-> TRUE,
                       error_log |-> <<"check failed: open", "recreated">>,
                       written |-> {pptx_path}]
                 ELSE [fs |-> f, go |-> FALSE,
                       error_log |-> <<"check failed: open", "recreation failed">>,
                       written |-> {}]
          ELSE [fs |-> f, go |-> FALSE,
                error_log |-> <<"check failed: open">>, written |-> {}]

\* Before the slide check: a document that does not exist is created when
\* create_if_not_exists is set (an empty presentation, saved to pptx_path).
OpenOrCreate(f, pptx_path, create_if_not_exists, fault) ==
  IF f[pptx_path].kind # "absent"
    THEN [fs |-> f, go |-> TRUE, error_log |-> <<>>, written |-> {}]
    ELSE IF create_if_not_exists /\ fault # "doc_create"
      THEN [fs |-> [f EXCEPT ![pptx_path] = Pptx(<<>>)], go |-> TRUE,
            error_log |-> <<"created">>, written |-> {pptx_path}]
      ELSE [fs |-> f, go |-> FALSE, error_log |-> <<"no document">>,
            written |-> {}]

\* The graphic on slide slide_number of the given slides.
Placed(slides, g, slide_number) ==
  [slides EXCEPT ![slide_number].gfx = @ \cup {g}]

\* After the slide check: the graphic is placed on slide slide_number of the
\* document read from pptx_path and the result is persisted to output_path.
PlaceAndPersist(f, pptx_path, g, slide_number, output_path, fault) ==
  IF fault \notin {"place_false", "place_raise"} /\ f[pptx_path].kind = "pptx"
       /\ slide_number \in 1..Len(f[pptx_path].slides)
    THEN [fs |-> [f EXCEPT ![output_path] =
                     Pptx(Placed(f[pptx_path].slides, g, slide_number))],
          ok |-> TRUE, raised |-> FALSE, written |-> {output_path}]
    ELSE [fs |-> f, ok |-> FALSE, raised |-> (fault = "place_raise"), written |-> {}]

\* insert_svg_to_pptx: (success, error details), the file system after it.
insert_svg_to_pptx(f, pptx_path, g, slide_number, output_path, create, fault) ==
  LET a == OpenOrCreate(f, pptx_path, create, fault)
      b == SlideCheck(a.fs, pptx_path, slide_number, fault)
      c == PlaceAndPersist(b.fs, pptx_path, g, slide_number, output_path, fault)
  IN  IF ~a.go
        THEN [fs |-> a.fs, ok |-> FALSE, raised |-> FALSE,
              error_log |-> a.error_log, written |-> a.written]
        ELSE IF ~b.go
          THEN [fs |-> b.fs, ok |-> FALSE, raised |-> FALSE,
                error_log |-> a.error_log \o b.error_log,
                written |-> a.written \cup b.written]
          ELSE [fs |-> c.fs, ok |-> c.ok, raised |-> c.raised,
                error_log |-> a.error_log \o b.error_log
                              \o (IF c.ok THEN <<>> ELSE <<"placement failed">>),
                written |-> a.written \cup b.written \cup c.written]

\* An SVG argument: the graphic it holds, whether the file exists, and
\* whether its path contains the word the batch loop looks for in a result.
\* (The word is only ever read from the messages about a missing file.)
SvgFiles(G) ==
  {x \in [g : G, exists : BOOLEAN, word : BOOLEAN] : x.word => ~x.exists}

\* A result string of process_single_svg: which message it is, and whether
\* the text contains the word of a success message.
Result(kind, word) == [kind |-> kind, word |-> word]

\* process_single_svg (main.py lines 255-330).
process_single_svg(f, pptx_path, svg, slide_number, output_path, create, fault) ==
  LET out == IF output_path = NoPath THEN DefaultOutPath ELSE output_path
      r == insert_svg_to_pptx(f, pptx_path, svg.g, slide_number, out, create, fault)
      none == [fs |-> f, written |-> {}, error_log |-> <<>>]
  IN  IF ~svg.exists /\ fault = "svg_dir"
        THEN none @@ [result |-> Result("svg_dir_error", svg.word)]
      ELSE IF ~svg.exists /\ create /\ fault = "svg_create"
        THEN none @@ [result |-> Result("svg_create_error", svg.word)]
      ELSE IF ~svg.exists /\ ~create
        THEN none @@ [result |-> Result("svg_missing", svg.word)]
      ELSE IF r.raised
        THEN [fs |-> r.fs, written |-> r.written, error_log |-> r.error_log,
              result |-> Result("exception", FALSE)]
      ELSE IF r.ok
        THEN [fs |-> r.fs, written |-> r.written, error_log |-> r.error_log,
              result |-> Result("success", TRUE)]
      ELSE [fs |-> r.fs, written |-> r.written, error_log |-> r.error_log,
            result |-> Result("insert_failed", FALSE)]

----------------------------------------------------------------------------
(* The slide tools: insert_blank_slide and delete_slide. *)

\* list.insert(index, x), index counted from 0
ListInsert(seq, index, x) ==
  [k \in 1..(Len(seq) + 1) |->
     IF k <= index THEN seq[k] ELSE IF k = index + 1 THEN x ELSE seq[k - 1]]

\* list.remove(x): without the first element that is x
ListRemove(seq, x) ==
  LET at == CHOOSE k \in 1..Len(seq) :
              seq[k] = x /\ \A j \in 1..(k - 1) : seq[j] # x
  IN  [k \in 1..(Len(seq) - 1) |-> IF k < at THEN seq[k] ELSE seq[k + 1]]

\* An insertion that leaves the new slide at the end.
InsertBlankAt_Appended(slides, slide_number) == AddSlide(slides)

\* main.py lines 739-754: the new slide is added at the end and, unless the
\* target is the end, moved to the target position.
InsertBlankAt(slides, slide_number) ==
  LET slides_count == Len(slides)
      slide_index == slide_number - 1
      added == AddSlide(slides)
      last_slide == added[Len(added)]
  IN  IF slide_index < slides_count
        THEN ListInsert(ListRemove(added, last_slide), slide_index, last_slide)
        ELSE added

\* A deletion that removes the last slide, whatever the position.
DeleteAt_LastSlide(slides, slide_number) ==
  ListRemove(slides, slides[Len(slides)])

\* main.py lines 615-620
DeleteAt(slides, slide_number) ==
  LET slide_index == slide_number - 1
  IN  ListRemove(slides, slides[slide_index + 1])

\* A range check that lets the position after the append position through.
InsertPositionOk_OneTooMany(slide_number, slides_count) ==
  1 <= slide_number /\ slide_number <= slides_count + 2

\* main.py line 736
InsertPositionOk(slide_number, slides_count) ==
  1 <= slide_number /\ slide_number <= slides_count + 1

\* main.py line 612
DeletePositionOk(slide_number, slides_count) ==
  1 <= slide_number /\ slide_number <= slides_count

\* What goes wrong during a call of a slide tool: nothing, the creation of
\* the output directory, opening the document, a layout index that is not
\* one of the presentation's layouts, or saving the document.
Faults == {"none", "dir", "open", "layout", "save"}

\* insert_blank_slide (main.py lines 684-766): the file system after the call
\* and the status the returned message reports.
insert_blank_slide(f, pptx_arg, slide_number, output_arg, create, fault) ==
  LET pptx_path == IF pptx_arg = NoPath THEN DefaultPptxPath ELSE pptx_arg
      output_path == IF output_arg = NoPath THEN DefaultOutPath ELSE output_arg
      file_exists == f[pptx_path].kind # "absent"
      slides == IF file_exists THEN f[pptx_path].slides ELSE <<>>
      slides_count == Len(slides)
  IN  IF fault = "dir" THEN [fs |-> f, status |-> "dir_error"]
      ELSE IF ~file_exists /\ ~create THEN [fs |-> f, status |-> "not_exists"]
      ELSE IF file_exists /\ OpenError(f[pptx_path], fault # "open") # ""
        THEN [fs |-> f, status |-> "exception"]
      ELSE IF fault = "layout" THEN [fs |-> f, status |-> "layout_error"]
      ELSE IF ~InsertPositionOk(slide_number, slides_count)
        THEN [fs |-> f, status |-> "range_error"]
      ELSE IF fault = "save" THEN [fs |-> f, status |-> "exception"]
      ELSE [fs |-> [f EXCEPT ![output_path] =
                      Pptx(InsertBlankAt(slides, slide_number))],
            status |-> "ok"]

\* delete_slide (main.py lines 577-630)
delete_slide(f, pptx_path, slide_number, output_arg, fault) ==
  LET output_path == IF output_arg = NoPath THEN DefaultOutPath ELSE output_arg
      slides == f[pptx_path].slides
  IN  IF f[pptx_path].kind = "absent" THEN [fs |-> f, status |-> "not_exists"]
      ELSE IF fault = "dir" THEN [fs |-> f, status |-> "dir_error"]
      ELSE IF OpenError(f[pptx_path], fault # "open") # ""
        THEN [fs |-> f, status |-> "exception"]
      ELSE IF ~DeletePositionOk(slide_number, Len(slides))
        THEN [fs |-> f, status |-> "range_error"]
      ELSE IF fault = "save" THEN [fs |-> f, status |-> "exception"]
      ELSE [fs |-> [f EXCEPT ![output_path] = Pptx(DeleteAt(slides, slide_number))],
            status |-> "ok"]

----------------------------------------------------------------------------
(* insert_svg: preprocessing of the paths (main.py lines 121-175). *)

\* The paths the handler works with, or the error message it returns early.
Preprocessed(pptx_arg, output_arg, fault) ==
  [pptx_path |-> IF pptx_arg = NoPath THEN DefaultPptxPath ELSE pptx_arg,
   output_path |-> IF output_arg = NoPath THEN DefaultOutPath ELSE output_arg,
   error |-> IF fault = "pptx_dir" THEN "pptx_dir_error"
             ELSE IF fault = "output_dir" THEN "output_dir_error" ELSE ""]

----------------------------------------------------------------------------
(* Spec: the slide tools called one after the other. *)

\* A tool call: its arguments, what went wrong during it, the status it
\* returned, and its input document before the call.  undo: the call is a successful
\* delete_slide at the position, and on the output, of a successful
\* insert_blank_slide that was the call before; orig then holds the slides
\* that insert_blank_slide started from.
NoCall ==
  [op |-> "none", pptx_path |-> NoPath, output_path |-> NoPath,
   slide_number |-> 0, fault |-> "none", status |-> "", before |-> Absent,
   undo |-> FALSE, orig |-> <<>>]

InitFiles == {Absent, Corrupt} \cup {Pptx(Blank(k)) : k \in 0..MaxLen}

InitBatchIdle ==
  /\ pc = "idle"
  /\ args = [n |-> 0]
  /\ i = 0
  /\ current_input = NoPath
  /\ success_count = 0
  /\ result_messages = <<>>
  /\ attempts = <<>>
  /\ logged = {}
  /\ ret = [kind |-> "none"]
  /\ faults = 0

Init ==
  /\ \E d \in InitFiles :
       fs = [p \in Paths |-> IF p = PptxPath THEN d ELSE Absent]
  /\ calls = 0
  /\ last = NoCall
  /\ InitBatchIdle

batchVars == <<pc, args, i, current_input, success_count, result_messages,
               attempts, logged, ret, faults>>

\* The positions tried on a document: below, inside and above the valid range.
Positions(file) == 0..(Len(file.slides) + 2)

CallInsertBlankSlide ==
  /\ calls < MaxCalls
  /\ \E pptx_arg \in {NoPath, PptxPath, OutPath},
        output_arg \in {NoPath, PptxPath, OutPath},
        create \in BOOLEAN, fault \in Faults :
       LET pre == Preprocessed(pptx_arg, output_arg, "none")
       IN  \E slide_number \in Positions(fs[pre.pptx_path]) :
             LET r == insert_blank_slide(fs, pptx_arg, slide_number,
                                         output_arg, create, fault)
             IN  /\ fs' = r.fs
                 /\ last' = [op |-> "insert_blank_slide",
                             pptx_path |-> pre.pptx_path,
                             output_path |-> pre.output_path,
                             slide_number |-> slide_number,
                             fault |-> fault, status |-> r.status,
                             before |-> fs[pre.pptx_path],
                             undo |-> FALSE, orig |-> <<>>]
  /\ calls' = calls + 1
  /\ UNCHANGED batchVars

CallDeleteSlide ==
  /\ calls < MaxCalls
  /\ \E pptx_path \in {PptxPath, OutPath},
        output_arg \in {NoPath, PptxPath, OutPath},
        fault \in Faults \ {"layout"} :
       LET pre == Preprocessed(pptx_path, output_arg, "none")
       IN  \E slide_number \in Positions(fs[pptx_path]) :
             LET r == delete_slide(fs, pptx_path, slide_number, output_arg, fault)
                 undo == /\ r.status = "ok"
                         /\ last.op = "insert_blank_slide"
                         /\ last.status = "ok"
                         /\ last.output_path = pptx_path
                         /\ last.slide_number = slide_number
             IN  /\ fs' = r.fs
                 /\ last' = [op |-> "delete_slide",
                             pptx_path |-> pptx_path,
                             output_path |-> pre.output_path,
                             slide_number |-> slide_number,
                             fault |-> fault, status |-> r.status,
                             before |-> fs[pptx_path],
                             undo |-> undo,
                             orig |-> IF undo THEN last.before.slides ELSE <<>>]
  /\ calls' = calls + 1
  /\ UNCHANGED batchVars

Next == CallInsertBlankSlide \/ CallDeleteSlide

Spec == Init /\ [][Next]_vars

----------------------------------------------------------------------------
(* Claims about the slide tools (checked under Spec). *)

SlideOps == {"insert_blank_slide", "delete_slide"}

\* The position of call c is one its tool accepts on the document it opened.
InRange(c) ==
  IF c.op = "insert_blank_slide"
    THEN c.slide_number \in 1..(Len(c.before.slides) + 1)
    ELSE c.slide_number \in 1..Len(c.before.slides)

\* The reference list operations, positions counted from 1.
RefInsert(S, p, x) == SubSeq(S, 1, p - 1) \o <<x>> \o SubSeq(S, p, Len(S))
RefDelete(S, p) == SubSeq(S, 1, p - 1) \o SubSeq(S, p + 1, Len(S))

NoDuplicateIds(slides) == Cardinality(Ids(slides)) = Len(slides)

\* C8: insert_blank_slide with a position outside 1..len+1 and delete_slide
\* with a position outside 1..len never succeed; when the document was opened
\* and nothing else went wrong they return the index-out-of-range error; and
\* a call with such a position, like every call that returns that error,
\* saves nothing: no file is created or changed.
C8_OutOfRangeRejected ==
  /\ [](last.op \in SlideOps /\ ~InRange(last) =>
          /\ last.status # "ok"
          /\ (last.fault = "none" /\ last.before.kind = "pptx"
                => last.status = "range_error"))
  /\ [](last.status = "range_error" => ~InRange(last))
  /\ [][calls' # calls /\ (~InRange(last') \/ last'.status = "range_error")
          => fs' = fs]_vars

C8_Witness ==
  /\ last.op = "delete_slide"
  /\ last.status = "range_error"
  /\ last.slide_number = Len(last.before.slides) + 1
  /\ Len(last.before.slides) >= 1

\* C9: a successful insert_blank_slide at position p saves S[1..p-1], a new
\* blank slide whose identifier no slide of S has, S[p..n]; a successful
\* delete_slide at p saves S without its p-th element; in every document the
\* slide identifiers are pairwise distinct.
C9_InsertDeleteAsReferenceList ==
  /\ last.op = "insert_blank_slide" /\ last.status = "ok" =>
       LET S == last.before.slides
           p == last.slide_number
           T == fs[last.output_path].slides
       IN  /\ fs[last.output_path].kind = "pptx"
           /\ p \in 1..Len(T)
           /\ T = RefInsert(S, p, T[p])
           /\ T[p].gfx = {}
           /\ T[p].id \notin Ids(S)
  /\ last.op = "delete_slide" /\ last.status = "ok" =>
       /\ fs[last.output_path].kind = "pptx"
       /\ fs[last.output_path].slides =
            RefDelete(last.before.slides, last.slide_number)
  /\ \A q \in Paths : NoDuplicateIds(fs[q].slides)

C9_Witness ==
  /\ calls >= 2
  /\ last.op = "insert_blank_slide"
  /\ last.status = "ok"
  /\ last.slide_number > 1
  /\ last.slide_number <= Len(last.before.slides)

\* C10: a successful insert_blank_slide at position i followed by a
\* successful delete_slide at position i of the document it saved leaves the
\* slide sequence the insert started from.
C10_InsertThenDeleteRestores ==
  last.undo => fs[last.output_path].slides = last.orig

C10_Witness ==
  /\ last.undo
  /\ Len(last.orig) >= 2
  /\ last.slide_number \in 2..Len(last.orig)

----------------------------------------------------------------------------
(* SpecSingle: insert_svg called with a single path, one call after the    *)
(* other.                                                                  *)

\* The slide numbers tried on a document: inside and beyond its slides.
SlideNumbers(file) == 1..(Len(file.slides) + 2)

\* insert_svg called with a single path (main.py lines 121-183)
CallInsertSvg ==
  /\ calls < MaxInserts
  /\ \E pptx_arg \in {NoPath, PptxPath},
        output_arg \in {NoPath, PptxPath, OutPath},
        svg \in {x \in SvgFiles({calls + 1}) : ~x.word},
        create \in BOOLEAN, fault \in InsertFaults :
       LET pre == Preprocessed(pptx_arg, output_arg, fault)
       IN  \E slide_number \in SlideNumbers(fs[pre.pptx_path]) :
             LET r == process_single_svg(fs, pre.pptx_path, svg, slide_number,
                                         pre.output_path, create, fault)
                 call == [op |-> "insert_svg", pptx_path |-> pre.pptx_path,
                          output_path |-> pre.output_path, g |-> svg.g,
                          slide_number |-> slide_number, create |-> create,
                          fault |-> fault, before |-> fs[pre.pptx_path]]
             IN  IF pre.error # ""
                   THEN /\ fs' = fs
                        /\ last' = call @@ [status |-> pre.error,
                                            error_log |-> <<>>]
                   ELSE /\ fs' = r.fs
                        /\ last' = call @@ [status |-> r.result.kind,
                                            error_log |-> r.error_log]
  /\ calls' = calls + 1
  /\ UNCHANGED batchVars

NextSingle == CallInsertSvg

SpecSingle == Init /\ [][NextSingle]_vars

----------------------------------------------------------------------------
(* Claims about the single-item insertion (checked under SpecSingle). *)

\* The statuses of a call that got as far as insert_svg_to_pptx.
Inserted == {"success", "insert_failed", "exception"}

Count(seq, x) == Cardinality({k \in 1..Len(seq) : seq[k] = x})

\* C6 (as claimed): a single-item insertion that fails leaves a readable
\* document at the input path exactly as it was before the call.
C6_FailedInsertLeavesInputUntouched ==
  last.op = "insert_svg" /\ last.status # "success" /\ last.before.kind = "pptx"
    => fs[last.pptx_path] = last.before

\* C7: an invalid-container error on opening the document makes the slide
\* check recreate it once, as slide_number blank slides, and the insertion
\* goes on to placement; any other error on opening, and a failure of the
\* recreation, end the insertion with a failure and the diagnostics logged
\* so far, without (another) recreation and without writing any file.
C7_RecreatedOnceOnInvalidContainer ==
  last.op = "insert_svg" /\ last.status \in Inserted =>
    LET n == last.slide_number
        log == last.error_log
        placed == Placed(Blank(n), last.g, n)
    IN  /\ Count(log, "recreated") + Count(log, "recreation failed") <= 1
        /\ last.before.kind = "corrupt" /\ last.fault \notin {"open", "recreate"} =>
             /\ Count(log, "recreated") = 1
             /\ log[1] = "check failed: open"
             /\ last.fault = "none" =>
                  /\ last.status = "success"
                  /\ fs[last.output_path] = Pptx(placed)
                  /\ last.output_path # last.pptx_path =>
                       fs[last.pptx_path] = Pptx(Blank(n))
             /\ last.fault \in {"place_false", "place_raise"} =>
                  /\ last.status # "success"
                  /\ fs[last.pptx_path] = Pptx(Blank(n))
        /\ last.before.kind # "absent" /\ last.fault = "open" =>
             /\ last.status = "insert_failed"
             /\ log = <<"check failed: open">>
             /\ fs[last.pptx_path] = last.before
        /\ last.before.kind = "corrupt" /\ last.fault = "recreate" =>
             /\ last.status = "insert_failed"
             /\ log = <<"check failed: open", "recreation failed">>
             /\ fs[last.pptx_path] = last.before
        /\ last.before.kind = "pptx" => Count(log, "recreated") = 0

C7_Witness ==
  /\ last.op = "insert_svg"
  /\ last.before.kind = "corrupt"
  /\ last.status = "success"
  /\ last.slide_number >= 2
  /\ Count(last.error_log, "recreated") = 1

\* C11: the slide check of an insertion on slide i (counted from 1) of a
\* readable document of n slides leaves, at the input path, a document of
\* max(n, i) slides: the n slides as they were, followed by i - n blank
\* slides with new identifiers; when i <= n it adds no slide and does not
\* write the input path.
C11_AutoExtensionLength ==
  last.op = "insert_svg" /\ last.status \in Inserted /\ last.before.kind = "pptx"
      /\ last.fault \notin {"open", "save"} =>
    LET S == last.before.slides
        n == Len(S)
        slide == last.slide_number
        T == fs[last.pptx_path].slides
        overwritten == last.status = "success" /\ last.output_path = last.pptx_path
    IN  /\ Count(last.error_log, "slides added") = (IF slide > n THEN 1 ELSE 0)
        /\ Len(T) = Max({n, slide})
        /\ \A k \in 1..n : k # slide \/ ~overwritten => T[k] = S[k]
        /\ \A k \in (n + 1)..Len(T) :
             /\ T[k].id \notin Ids(S)
             /\ k # slide \/ ~overwritten => T[k].gfx = {}
        /\ NoDuplicateIds(T)
        /\ slide <= n /\ ~overwritten => fs[last.pptx_path] = last.before

C11_Witness ==
  /\ last.op = "insert_svg"
  /\ last.status = "insert_failed"
  /\ last.fault = "place_false"
  /\ Len(last.before.slides) = 1
  /\ last.before.kind = "pptx"
  /\ last.slide_number = 3
  /\ Len(fs[last.pptx_path].slides) = 3

\* C20: an insertion called without an output location and ending in
\* success has persisted its result to the path of the input document.
C20_DefaultOutputIsInput ==
  (/\ last.op = "insert_svg"
   /\ last.status = "success"
   /\ last.output_path \notin {PptxPath, OutPath})
    => last.output_path = last.pptx_path

----------------------------------------------------------------------------
(* SpecBatch: one call of insert_svg with a list of paths                  *)
(* (main.py lines 121-253), a stage of the handler per action.             *)

\* The lists of n SVG arguments; item k holds graphic k.  w: the directory
\* of the SVG files has the word of a success message in its name.
RECURSIVE SvgLists(_, _)
SvgLists(n, w) ==
  IF n = 0 THEN {<<>>}
  ELSE {Append(l, x) : l \in SvgLists(n - 1, w),
                        x \in {y \in SvgFiles({n}) : y.word = (w /\ ~y.exists)}}

InitBatch ==
  /\ \E d \in InitFiles :
       fs = [p \in Paths |-> IF p = PptxPath THEN d ELSE Absent]
  /\ calls = 0
  /\ last = NoCall
  /\ pc = "start"
  /\ \E n \in 0..MaxItems, w \in BOOLEAN,
        output_arg \in {NoPath, PptxPath, OutPath},
        slide_number \in {1, MaxStart}, create \in BOOLEAN :
     \E svgs \in SvgLists(n, w) :
       args = [pptx_path |-> PptxPath, svg_path |-> svgs,
               slide_number |-> slide_number, output_path |-> output_arg,
               create_if_not_exists |-> create]
  /\ i = 0
  /\ current_input = NoPath
  /\ success_count = 0
  /\ result_messages = <<>>
  /\ attempts = <<>>
  /\ logged = {}
  /\ ret = [kind |-> "none"]
  /\ faults = 0

total_count == Len(args.svg_path)

\* A handler without the test for the empty list.
IsEmptyBatch_NotTested == FALSE

\* main.py line 189
IsEmptyBatch == total_count = 0

\* A loop that puts every item on the starting slide.
CurrentSlide_StartOnly(k) == args.slide_number

\* main.py line 200: the slide of item k (counted from 0)
CurrentSlide(k) == args.slide_number + k

\* main.py line 203: item k is the last one
IsLastItem(k) == ~(k < total_count - 1)

\* main.py line 220
FinalOutput ==
  IF args.output_path # NoPath THEN args.output_path ELSE args.pptx_path

\* main.py lines 203-220: where item k is written
StepOutput(k) == IF IsLastItem(k) THEN FinalOutput ELSE TempPath(k)

\* main.py line 217: what the item after item k reads, whatever item k returned
NextInput(k, input) == IF IsLastItem(k) THEN input ELSE StepOutput(k)

\* A cleanup loop that stops one scratch file early.
CleanupPending_OneShort(k) == k < total_count - 2

\* main.py line 239: range(total_count - 1)
CleanupPending(k) == k < total_count - 1

\* The failures of the environment a step may meet: none once MaxFaults
\* steps have met one.
May(F) == IF faults < MaxFaults THEN F \cup {"none"} ELSE {"none"}

Met(fault) == IF fault = "none" THEN faults ELSE faults + 1

\* main.py lines 121-175
Preprocess ==
  /\ pc = "start"
  /\ \E fault \in May({"pptx_dir", "output_dir"}) :
       LET pre == Preprocessed(args.pptx_path, args.output_path, fault)
       IN  /\ faults' = Met(fault)
           /\ IF pre.error # ""
                THEN /\ pc' = "returned"
                     /\ ret' = [kind |-> pre.error]
                     /\ args' = args
                ELSE /\ pc' = "branch"
                     /\ ret' = ret
                     /\ args' = [args EXCEPT !.pptx_path = pre.pptx_path,
                                             !.output_path = pre.output_path]
  /\ UNCHANGED <<fs, calls, last, i, current_input, success_count,
                 result_messages, attempts, logged>>

\* main.py lines 184-197
BatchEnter ==
  /\ pc = "branch"
  /\ \E fault \in May({"tmp_dir"}) :
       /\ faults' = IF IsEmptyBatch THEN faults ELSE Met(fault)
       /\ IF IsEmptyBatch
            THEN /\ pc' = "returned"
                 /\ ret' = [kind |-> "empty_list_error"]
                 /\ current_input' = current_input
            ELSE IF fault = "tmp_dir"
              THEN \* os.makedirs in get_tmp_dir raises: nothing catches it
                   /\ pc' = "raised"
                   /\ ret' = ret
                   /\ current_input' = current_input
              ELSE /\ pc' = "loop"
                   /\ ret' = ret
                   /\ current_input' = args.pptx_path
  /\ i' = 0
  /\ UNCHANGED <<fs, calls, last, args, success_count, result_messages,
                 attempts, logged>>

StepFaults ==
  {"svg_dir", "svg_create", "doc_create", "open", "save", "recreate",
   "place_false", "place_raise"}

\* The test of main.py line 232 on a result of process_single_svg.
CountsAsSuccess(result) == result.word

\* One iteration of the loop of main.py lines 199-236.
BatchStep ==
  /\ pc = "loop"
  /\ i < total_count
  /\ \E fault \in May(StepFaults) :
       LET current_svg == args.svg_path[i + 1]
           current_slide == CurrentSlide(i)
           output == StepOutput(i)
           r == process_single_svg(fs, current_input, current_svg,
                                   current_slide, output,
                                   args.create_if_not_exists, fault)
       IN  /\ fs' = r.fs
           /\ faults' = Met(fault)
           /\ attempts' = Append(attempts,
                [item |-> i + 1, slide |-> current_slide,
                 input |-> current_input, output |-> output,
                 ok |-> (r.result.kind = "success"), written |-> r.written])
           /\ current_input' = NextInput(i, current_input)
           /\ success_count' = IF CountsAsSuccess(r.result)
                                 THEN success_count + 1 ELSE success_count
           /\ result_messages' = Append(result_messages,
                [item |-> i + 1, slide |-> current_slide,
                 added |-> CountsAsSuccess(r.result), result |-> r.result.kind])
           /\ IF i + 1 = total_count
                THEN pc' = "cleanup" /\ i' = 0
                ELSE pc' = pc /\ i' = i + 1
  /\ UNCHANGED <<calls, last, args, logged, ret>>

\* One iteration of the cleanup loop of main.py lines 239-245.
CleanupStep ==
  /\ pc = "cleanup"
  /\ CleanupPending(i)
  /\ LET temp_file == TempPath(i)
     IN  IF fs[temp_file].kind # "absent"
           THEN \E fault \in May({"remove"}) :
                  /\ faults' = Met(fault)
                  /\ IF fault = "remove"
                       THEN fs' = fs /\ logged' = logged \cup {temp_file}
                       ELSE /\ fs' = [fs EXCEPT ![temp_file] = Absent]
                            /\ logged' = logged
           ELSE UNCHANGED <<fs, logged, faults>>
  /\ i' = i + 1
  /\ UNCHANGED <<calls, last, pc, args, current_input, success_count,
                 result_messages, attempts, ret>>

\* main.py lines 247-251
BatchReturn ==
  /\ pc = "cleanup"
  /\ ~CleanupPending(i)
  /\ pc' = "returned"
  /\ ret' = [kind |-> "report", total |-> total_count,
             success |-> success_count,
             failed |-> total_count - success_count,
             result_path |-> FinalOutput,
             details |-> result_messages]
  /\ UNCHANGED <<fs, calls, last, args, i, current_input, success_count,
                 result_messages, attempts, logged, faults>>

NextBatch ==
  Preprocess \/ BatchEnter \/ BatchStep \/ CleanupStep \/ BatchReturn

SpecBatch == InitBatch /\ [][NextBatch]_vars

----------------------------------------------------------------------------
(* Claims about the batch run (checked under SpecBatch). *)

Reported == pc = "returned" /\ ret.kind = "report"

\* The document the step after the first j attempts should read if a failed
\* step did not advance the chain: the output of the last successful
\* attempt, the original document when there is none.
LastSuccessfulState(j) ==
  LET good == {k \in 1..j : attempts[k].ok}
  IN  IF good = {} THEN args.pptx_path ELSE attempts[Max(good)].output

\* C1 (as claimed): every step reads the document the last successful step
\* produced (the original document if none succeeded), and the final output
\* of a run whose last step succeeded holds the graphic of every item that
\* succeeded, on that item's slide.
C1_FailedStepDoesNotAdvance ==
  /\ \A j \in 1..Len(attempts) :
       attempts[j].input = LastSuccessfulState(j - 1)
  /\ Reported /\ attempts[total_count].ok =>
       \A j \in 1..total_count :
         attempts[j].ok =>
           /\ fs[FinalOutput].kind = "pptx"
           /\ attempts[j].slide <= Len(fs[FinalOutput].slides)
           /\ j \in fs[FinalOutput].slides[attempts[j].slide].gfx

\* C2: the items are attempted once each, in list order, item j (from 1) on
\* slide slide_number + j - 1, whatever the earlier items returned; a run
\* that gets to its report has attempted all n items, and the report lists
\* n outcomes in that order with success count + failure count = n.
C2_EveryItemAttemptedInOrder ==
  /\ Len(attempts) <= total_count
  /\ \A j \in 1..Len(attempts) :
       /\ attempts[j].item = j
       /\ attempts[j].slide = args.slide_number + j - 1
  /\ pc = "loop" => Len(attempts) = i
  /\ pc = "cleanup" \/ Reported => Len(attempts) = total_count /\ total_count >= 1
  /\ Reported =>
       /\ ret.total = total_count
       /\ Len(ret.details) = total_count
       /\ \A j \in 1..total_count :
            /\ ret.details[j].item = j
            /\ ret.details[j].slide = args.slide_number + j - 1
       /\ ret.success = Cardinality({j \in 1..total_count : ret.details[j].added})
       /\ ret.success + ret.failed = total_count
       /\ ret.failed >= 0

C2_Witness ==
  /\ Reported
  /\ total_count >= 3
  /\ attempts[1].ok
  /\ ~attempts[2].ok
  /\ attempts[3].ok

\* C3: once the run has returned no scratch file exists, except those whose
\* removal failed, which are logged; a failed removal neither changes the
\* report nor stops the removal of the scratch files after it.
C3_ScratchRemovedAtReturn ==
  /\ pc \in {"returned", "raised"} =>
       \A q \in TempPaths : fs[q].kind # "absent" => q \in logged
  /\ Reported =>
       /\ ret.details = result_messages
       /\ ret.success = success_count
  /\ \A q \in logged : fs[q].kind # "absent"

C3_Witness ==
  /\ Reported
  /\ total_count >= 3
  /\ ~attempts[3].ok
  /\ logged = {TempPath(0)}
  /\ TempPath(1) \in attempts[2].written
  /\ fs[TempPath(1)].kind = "absent"

\* C4 (as claimed): step j < n writes to its scratch file, the next step
\* reads that file, the first step reads the original document, and the last
\* step writes to the output path and to no scratch file.
C4_ScratchChain ==
  \A j \in 1..Len(attempts) :
    /\ j < total_count => attempts[j].output = TempPath(j - 1)
    /\ j > 1 => attempts[j].input = attempts[j - 1].output
    /\ j = 1 => attempts[j].input = args.pptx_path
    /\ j = total_count =>
         /\ attempts[j].output = FinalOutput
         /\ attempts[j].written \cap TempPaths = {}

----------------------------------------------------------------------------
(* UnitConverter (converters.py).  A string is a sequence of characters;   *)
(* a number is a fraction <<n, d>> with d > 0.                             *)

EMU_PER_INCH == 914400
EMU_PER_CM == 360000
EMU_PER_PT == 12700
EMU_PER_MM == 36000
EMU_PER_PX == 9525

DigitChars == <<"0", "1", "2", "3", "4", "5", "6", "7", "8", "9">>

\* \d
IsDigit(c) == \E k \in 1..10 : DigitChars[k] = c

DigitValue(c) == (CHOOSE k \in 1..10 : DigitChars[k] = c) - 1

\* [a-zA-Z], on the letters the expressions of the model are written with
IsLetter(c) ==
  c \in {"a", "b", "c", "e", "h", "i", "k", "m", "n", "p", "t", "x", "P", "T"}

\* str.lower() on those letters
LowerChar(c) == IF c = "P" THEN "p" ELSE IF c = "T" THEN "t" ELSE c

Lower(s) == [k \in 1..Len(s) |-> LowerChar(s[k])]

Abs(n) == IF n < 0 THEN -n ELSE n

RECURSIVE GCD(_, _)
GCD(a, b) == IF b = 0 THEN a ELSE GCD(b, a % b)

\* The fraction n/d in lowest terms.
Frac(n, d) ==
  LET g == GCD(Abs(n), d)
  IN  IF n = 0 THEN <<0, 1>> ELSE <<n \div g, d \div g>>

\* a * b and a / b (b > 0) on fractions in lowest terms
Times(a, b) ==
  LET g1 == GCD(Abs(a[1]), b[2])
      g2 == GCD(Abs(b[1]), a[2])
  IN  IF a[1] = 0 \/ b[1] = 0 THEN <<0, 1>>
      ELSE <<(a[1] \div g1) * (b[1] \div g2), (a[2] \div g2) * (b[2] \div g1)>>

Over(a, b) == Times(a, <<b[2], b[1]>>)

\* int(x): the integer part, truncated toward zero
Trunc(x) == IF x[1] >= 0 THEN x[1] \div x[2] ELSE -((-x[1]) \div x[2])

IsDigitOrDot(c) == IsDigit(c) \/ c = "."

\* c is of the character class: [\d.] or [a-zA-Z]
InClass(c, class) == IF class = "[\\d.]" THEN IsDigitOrDot(c) ELSE IsLetter(c)

\* The number of characters of s, from position from on, of the class.
RECURSIVE Run(_, _, _)
Run(s, from, class) ==
  IF from <= Len(s) /\ InClass(s[from], class)
    THEN 1 + Run(s, from + 1, class) ELSE 0

RECURSIVE NatOf(_)
NatOf(s) ==
  IF s = <<>> THEN 0
  ELSE 10 * NatOf(SubSeq(s, 1, Len(s) - 1)) + DigitValue(s[Len(s)])

RECURSIVE Pow10(_)
Pow10(k) == IF k = 0 THEN 1 ELSE 10 * Pow10(k - 1)

\* str.strip(chars) for one character, and str.strip() for the blank
RECURSIVE Strip(_, _)
Strip(s, c) ==
  IF s # <<>> /\ s[1] = c THEN Strip(Tail(s), c)
  ELSE IF s # <<>> /\ s[Len(s)] = c THEN Strip(SubSeq(s, 1, Len(s) - 1), c)
  ELSE s

EndsWith(s, c) == s # <<>> /\ s[Len(s)] = c

\* A float() that takes every string for a number.
PyFloat_NeverRaises(s) == [ok |-> TRUE, number |-> <<0, 1>>]

\* float(s) on the strings of the model: blanks around the number are
\* dropped, a sign may lead, and what is left must be digits with at most
\* one decimal point and at least one digit.  ok = FALSE: ValueError.
PyFloat(s) ==
  LET t == Strip(s, " ")
      signed == t # <<>> /\ t[1] \in {"-", "+"}
      u == IF signed THEN Tail(t) ELSE t
      dots == {k \in 1..Len(u) : u[k] = "."}
      dot == IF dots = {} THEN Len(u) + 1 ELSE CHOOSE k \in dots : TRUE
      digits == SubSeq(u, 1, dot - 1) \o SubSeq(u, dot + 1, Len(u))
      n == NatOf(digits)
      ok == /\ \A k \in 1..Len(u) : IsDigitOrDot(u[k])
            /\ Cardinality(dots) <= 1
            /\ digits # <<>>
  IN  IF ~ok THEN [ok |-> FALSE, number |-> <<0, 1>>]
      ELSE [ok |-> TRUE,
            number |-> Frac(IF signed /\ t[1] = "-" THEN -n ELSE n,
                            Pow10(Len(u) - dot + (IF dots = {} THEN 1 ELSE 0)))]

\* re.match(r"(-?[\d.]+)([a-zA-Z]+)?", value): group 1 and group 2, the
\* empty string standing for a group 2 of None.
ReMatch(value) ==
  LET sign == IF value # <<>> /\ value[1] = "-" THEN 1 ELSE 0
      num == Run(value, sign + 1, "[\\d.]")
      let == Run(value, sign + num + 1, "[a-zA-Z]")
  IN  IF num = 0 THEN [matched |-> FALSE, number |-> <<>>, unit |-> <<>>]
      ELSE [matched |-> TRUE, number |-> SubSeq(value, 1, sign + num),
            unit |-> SubSeq(value, sign + num + 1, sign + num + let)]

\* A value handed to a projector: a string or a number; the total: None or
\* a number.
Str(s) == [type |-> "str", s |-> s, number |-> <<0, 1>>]
Num(x) == [type |-> "number", s |-> <<>>, number |-> x]
None == [given |-> FALSE, number |-> <<0, 1>>]
Total(x) == [given |-> TRUE, number |-> x]

\* What a projector does: it returns a length (in EMU: the value of the
\* string to_emu returns, of the Length object the others return) or raises
\* a ValueError: the one of the format check, the one of the unit dispatch,
\* or the one float() raises.
Returns(emu) == [status |-> "ok", emu |-> emu]
Raises(error) == [status |-> error, emu |-> 0]
InvalidFormat == "ValueError: invalid input format"
UnsupportedUnit == "ValueError: unsupported unit"
FloatError == "ValueError: could not convert string to float"

\* pptx.util.Inches(x), Cm(x), Pt(x): a Length of int(x * EMU per unit)
Inches(x) == Trunc(Times(x, <<EMU_PER_INCH, 1>>))
Cm(x) == Trunc(Times(x, <<EMU_PER_CM, 1>>))
Pt(x) == Trunc(Times(x, <<EMU_PER_PT, 1>>))

\* The numbers of hundredths h (up to 499) for which the double product
\* float("h/100") * factor is below the integer the exact product is:
\* int() of it is that integer less one.
DoubleShort(factor) ==
  CASE factor = EMU_PER_PT ->
         {29, 57, 58, 113, 114, 115, 116, 201, 203, 205, 207, 226, 228, 230,
          232, 251, 253, 255, 257, 402, 406, 410, 414, 427, 431, 435, 439,
          452, 456, 460, 464, 477, 481, 485, 489}
    [] factor = EMU_PER_INCH ->
         {57, 113, 114, 201, 203, 205, 207, 209, 226, 228, 402, 406, 410,
          414, 418, 427, 431, 435, 439, 443, 452, 456}
    [] factor = EMU_PER_CM ->
         {35, 57, 69, 70, 113, 114, 115, 138, 139, 140, 201, 203, 205, 226,
          228, 230, 251, 253, 255, 276, 278, 280, 402, 406, 410, 427, 431,
          435, 452, 456, 460, 477, 481, 485}
    [] factor = EMU_PER_MM ->
         {69, 113, 138, 163, 201, 226, 251, 276, 301, 326, 351, 402, 427,
          452, 477}
    [] factor = EMU_PER_PX -> {164, 228, 276, 328, 452, 456}

\* The same for float("h/100") / 100 * total, total = 1000.
DoubleShortPercent(total) ==
  IF total = <<1000, 1>> THEN {70, 140, 280, 290, 410} ELSE {}

\* The number as a count of hundredths, -1 when it is not one.
Hundredths(number) ==
  LET h == Times(number, <<100, 1>>)
  IN  IF h[2] = 1 THEN Abs(h[1]) ELSE -1

\* int(x) of the double next below the integer x (above, for x < 0)
IntOfShort(x) == IF x[1] > 0 THEN x[1] - 1 ELSE x[1] + 1

\* int(number * factor), the product computed in double arithmetic
IntOfProduct(number, factor) ==
  LET exact == Times(number, <<factor, 1>>)
  IN  IF Hundredths(number) \in DoubleShort(factor)
        THEN IntOfShort(exact) ELSE Trunc(exact)

\* int(percent * total), percent = float(...) / 100 in double arithmetic
IntOfPercent(number, total) ==
  LET exact == Times(Over(number, <<100, 1>>), total)
  IN  IF Hundredths(number) \in DoubleShortPercent(total)
        THEN IntOfShort(exact) ELSE Trunc(exact)

\* The test of the percentage branch (converters.py lines 46, 119, 178, 237)
IsPercentage(value, total) == EndsWith(value.s, "%") /\ total.given

\* converters.py lines 50-57 (and 123-130, 182-189, 241-248): the match,
\* float(match.group(1)) and match.group(2)
ParseExpression(s) ==
  LET match == ReMatch(s)
      f == PyFloat(match.number)
  IN  IF ~match.matched THEN [error |-> InvalidFormat, number |-> <<0, 1>>, unit |-> <<>>]
      ELSE IF ~f.ok THEN [error |-> FloatError, number |-> <<0, 1>>, unit |-> <<>>]
      ELSE [error |-> "", number |-> f.number, unit |-> match.unit]

\* to_emu on a string: the percentage (lines 47-48), the dispatch on the
\* unit (lines 53-78)
EmuOfPercent(percent, total) ==
  IF ~percent.ok THEN Raises(FloatError)
  ELSE Returns(IntOfPercent(percent.number, total.number))

EmuOfUnit(e, unit) ==
  IF e.error # "" THEN Raises(e.error)
  ELSE IF e.unit = <<>> THEN Returns(Trunc(e.number))
  ELSE IF unit = <<"p", "t">> THEN Returns(IntOfProduct(e.number, EMU_PER_PT))
  ELSE IF unit = <<"i", "n", "c", "h">> \/ unit = <<"i", "n">>
    THEN Returns(IntOfProduct(e.number, EMU_PER_INCH))
  ELSE IF unit = <<"c", "m">> THEN Returns(IntOfProduct(e.number, EMU_PER_CM))
  ELSE IF unit = <<"m", "m">> THEN Returns(IntOfProduct(e.number, EMU_PER_MM))
  ELSE IF unit = <<"p", "x">> THEN Returns(IntOfProduct(e.number, EMU_PER_PX))
  ELSE Raises(UnsupportedUnit)

EmuOfParsed(e) == EmuOfUnit(e, Lower(e.unit))

\* UnitConverter.to_emu (converters.py lines 13-95)
to_emu(value, total) ==
  IF value.type = "str" THEN
    IF IsPercentage(value, total)
      THEN EmuOfPercent(PyFloat(Strip(value.s, "%")), total)
    ELSE EmuOfParsed(ParseExpression(value.s))
  ELSE Returns(Trunc(value.number))

\* to_inches on a string: lines 120-121, lines 126-151
InchesOfPercent(percent, total) ==
  IF ~percent.ok THEN Raises(FloatError)
  ELSE Returns(Inches(Times(Over(percent.number, <<100, 1>>), total.number)))

InchesOfUnit(e, unit) ==
  IF e.error # "" THEN Raises(e.error)
  ELSE IF e.unit = <<>> THEN Returns(Inches(e.number))
  ELSE IF unit = <<"p", "t">> THEN Returns(Inches(Over(e.number, <<72, 1>>)))
  ELSE IF unit = <<"i", "n", "c", "h">> \/ unit = <<"i", "n">>
    THEN Returns(Inches(e.number))
  ELSE IF unit = <<"c", "m">> THEN Returns(Inches(Over(e.number, <<127, 50>>)))
  ELSE IF unit = <<"m", "m">> THEN Returns(Inches(Over(e.number, <<127, 5>>)))
  ELSE IF unit = <<"p", "x">> THEN Returns(Inches(Over(e.number, <<9525, 1>>)))
  ELSE Raises(UnsupportedUnit)

InchesOfParsed(e) == InchesOfUnit(e, Lower(e.unit))

\* UnitConverter.to_inches (converters.py lines 98-154)
to_inches(value, total) ==
  IF value.type = "str" THEN
    IF IsPercentage(value, total)
      THEN InchesOfPercent(PyFloat(Strip(value.s, "%")), total)
    ELSE InchesOfParsed(ParseExpression(value.s))
  ELSE Returns(Inches(value.number))

\* to_cm on a string: lines 179-180, lines 185-210
CmOfPercent(percent, total) ==
  IF ~percent.ok THEN Raises(FloatError)
  ELSE Returns(Cm(Times(Over(percent.number, <<100, 1>>), total.number)))

CmOfUnit(e, unit) ==
  IF e.error # "" THEN Raises(e.error)
  ELSE IF e.unit = <<>> THEN Returns(Cm(e.number))
  ELSE IF unit = <<"p", "t">>
    THEN Returns(Cm(Over(Times(e.number, <<127, 50>>), <<72, 1>>)))
  ELSE IF unit = <<"i", "n", "c", "h">> \/ unit = <<"i", "n">>
    THEN Returns(Cm(Times(e.number, <<127, 50>>)))
  ELSE IF unit = <<"c", "m">> THEN Returns(Cm(e.number))
  ELSE IF unit = <<"m", "m">> THEN Returns(Cm(Over(e.number, <<10, 1>>)))
  ELSE IF unit = <<"p", "x">> THEN Returns(Cm(Over(e.number, <<9525, 1>>)))
  ELSE Raises(UnsupportedUnit)

CmOfParsed(e) == CmOfUnit(e, Lower(e.unit))

\* UnitConverter.to_cm (converters.py lines 157-213)
to_cm(value, total) ==
  IF value.type = "str" THEN
    IF IsPercentage(value, total)
      THEN CmOfPercent(PyFloat(Strip(value.s, "%")), total)
    ELSE CmOfParsed(ParseExpression(value.s))
  ELSE Returns(Cm(value.number))

\* to_points on a string: lines 238-239, lines 244-269
PointsOfPercent(percent, total) ==
  IF ~percent.ok THEN Raises(FloatError)
  ELSE Returns(Pt(Times(Over(percent.number, <<100, 1>>), total.number)))

PointsOfUnit(e, unit) ==
  IF e.error # "" THEN Raises(e.error)
  ELSE IF e.unit = <<>> THEN Returns(Pt(e.number))
  ELSE IF unit = <<"p", "t">> THEN Returns(Pt(e.number))
  ELSE IF unit = <<"i", "n", "c", "h">> \/ unit = <<"i", "n">>
    THEN Returns(Pt(Times(e.number, <<72, 1>>)))
  ELSE IF unit = <<"c", "m">>
    THEN Returns(Pt(Over(Times(e.number, <<72, 1>>), <<127, 50>>)))
  ELSE IF unit = <<"m", "m">>
    THEN Returns(Pt(Over(Times(e.number, <<72, 1>>), <<127, 5>>)))
  ELSE IF unit = <<"p", "x">>
    THEN Returns(Pt(Over(Times(e.number, <<72, 1>>), <<9525, 1>>)))
  ELSE Raises(UnsupportedUnit)

PointsOfParsed(e) == PointsOfUnit(e, Lower(e.unit))

\* UnitConverter.to_points (converters.py lines 216-272)
to_points(value, total) ==
  IF value.type = "str" THEN
    IF IsPercentage(value, total)
      THEN PointsOfPercent(PyFloat(Strip(value.s, "%")), total)
    ELSE PointsOfParsed(ParseExpression(value.s))
  ELSE Returns(Pt(value.number))

----------------------------------------------------------------------------
(* SpecUnits: a projector of UnitConverter applied to an expression.  An   *)
(* expression is written as a sign, a numeric token and a suffix.          *)

\* Bound: the tokens w.ab have w in 0..MaxWhole.
MaxWhole == 2

\* A token: its characters and, when they denote a number, that number.
Token(chars, numeric, number) ==
  [chars |-> chars, numeric |-> numeric, number |-> number]

DecimalTokens ==
  {Token(<<DigitChars[w + 1], ".", DigitChars[a + 1], DigitChars[b + 1]>>,
         TRUE, Frac(100 * w + 10 * a + b, 100)) :
     w \in 0..MaxWhole, a \in 0..9, b \in 0..9}

WholeTokens ==
  {Token(<<DigitChars[w + 1]>>, TRUE, <<w, 1>>) : w \in 0..MaxWhole}

\* No digit before, or after, the decimal point.
BareDotTokens ==
  {Token(<<".", "5">>, TRUE, <<1, 2>>), Token(<<"5", ".">>, TRUE, <<5, 1>>)}

\* No token, no digit, several decimal points.
MalformedTokens ==
  {Token(<<>>, FALSE, <<0, 1>>), Token(<<".">>, FALSE, <<0, 1>>),
   Token(<<".", ".">>, FALSE, <<0, 1>>),
   Token(<<"1", ".", "2", ".", "3">>, FALSE, <<0, 1>>),
   Token(<<"1", ".", ".", "2">>, FALSE, <<0, 1>>)}

\* Numbers too large to go with a unit in the integers of the checker.
LargeTokens ==
  {Token(<<"9", "1", "4", "4", "0", "0">>, TRUE, <<914400, 1>>),
   Token(<<"5", "0">>, TRUE, <<50, 1>>)}

Tokens == DecimalTokens \cup WholeTokens \cup BareDotTokens \cup MalformedTokens

Signs == {<<>>, <<"-">>}

\* The suffixes the projectors know, the factor of each (EMU per unit).
UnitSuffixes ==
  {<<"p", "t">>, <<"i", "n">>, <<"i", "n", "c", "h">>, <<"c", "m">>,
   <<"m", "m">>, <<"p", "x">>}

FactorOf(unit) ==
  CASE unit = <<"p", "t">> -> EMU_PER_PT
    [] unit \in {<<"i", "n">>, <<"i", "n", "c", "h">>} -> EMU_PER_INCH
    [] unit = <<"c", "m">> -> EMU_PER_CM
    [] unit = <<"m", "m">> -> EMU_PER_MM
    [] unit = <<"p", "x">> -> EMU_PER_PX

\* Suffixes that are no unit: other letters, a blank before letters, a
\* prime, a unit followed by a digit.
OtherSuffixes ==
  {<<"e", "m">>, <<"k", "m">>, <<"x">>, <<" ", "k", "m">>, <<"'">>,
   <<"p", "t", "2">>}

Suffixes ==
  UnitSuffixes \cup OtherSuffixes \cup {<<>>, <<"P", "T">>, <<"%">>}

Totals == {None, Total(<<1000, 1>>)}

Expression(sign, token, suffix) == Str(sign \o token.chars \o suffix)

NoProjection ==
  [op |-> "none", sign |-> <<>>, token |-> Token(<<>>, FALSE, <<0, 1>>),
   suffix |-> <<>>, total |-> None, status |-> "", emu |-> 0]

Projection(op, sign, token, suffix, total, r) ==
  [op |-> op, sign |-> sign, token |-> token, suffix |-> suffix,
   total |-> total, status |-> r.status, emu |-> r.emu]

InitUnits ==
  /\ fs = [p \in Paths |-> Absent]
  /\ calls = 0
  /\ last = NoProjection
  /\ InitBatchIdle

CallToEmu ==
  /\ last.op = "none"
  /\ \E sign \in Signs, token \in Tokens \cup LargeTokens,
        suffix \in Suffixes, total \in Totals :
       /\ token \in LargeTokens => suffix \in {<<>>, <<"%">>}
       /\ last' = Projection("to_emu", sign, token, suffix, total,
                             to_emu(Expression(sign, token, suffix), total))
  /\ UNCHANGED <<fs, calls, batchVars>>

CallToInches ==
  /\ last.op = "none"
  /\ \E sign \in Signs, token \in Tokens, suffix \in Suffixes, total \in Totals :
       last' = Projection("to_inches", sign, token, suffix, total,
                          to_inches(Expression(sign, token, suffix), total))
  /\ UNCHANGED <<fs, calls, batchVars>>

CallToCm ==
  /\ last.op = "none"
  /\ \E sign \in Signs, token \in Tokens, suffix \in Suffixes, total \in Totals :
       last' = Projection("to_cm", sign, token, suffix, total,
                          to_cm(Expression(sign, token, suffix), total))
  /\ UNCHANGED <<fs, calls, batchVars>>

CallToPoints ==
  /\ last.op = "none"
  /\ \E sign \in Signs, token \in Tokens, suffix \in Suffixes, total \in Totals :
       last' = Projection("to_points", sign, token, suffix, total,
                          to_points(Expression(sign, token, suffix), total))
  /\ UNCHANGED <<fs, calls, batchVars>>

\* A projector handed a number, not a string.
ProjectNumber(op, x) ==
  CASE op = "to_emu" -> to_emu(Num(x), None)
    [] op = "to_inches" -> to_inches(Num(x), None)
    [] op = "to_cm" -> to_cm(Num(x), None)
    [] op = "to_points" -> to_points(Num(x), None)

CallWithNumber ==
  /\ last.op = "none"
  /\ \E h \in -(100 * MaxWhole + 99)..(100 * MaxWhole + 99),
        op \in {"to_emu", "to_inches", "to_cm", "to_points"} :
       last' = [Projection(op, <<>>, Token(<<>>, TRUE, Frac(h, 100)), <<>>,
                           None, ProjectNumber(op, Frac(h, 100)))
                  EXCEPT !.op = op \o "(number)"]
  /\ UNCHANGED <<fs, calls, batchVars>>

\* converters.py lines 274-302
inches_to_cm(inches) == Times(inches, <<127, 50>>)
cm_to_inches(cm) == Over(cm, <<127, 50>>)
points_to_inches(points) == Over(points, <<72, 1>>)
inches_to_points(inches) == Times(inches, <<72, 1>>)
px_to_emu(px) == Times(px, <<EMU_PER_PX, 1>>)
emu_to_px(emu) == Over(emu, <<EMU_PER_PX, 1>>)

\* A length in EMU expressed in the unit: emu_to_px for pixels; for the
\* other units, the division by the factor to_emu multiplies with.
ProjectBack(emu, unit) ==
  IF unit = <<"p", "x">> THEN emu_to_px(<<emu, 1>>)
  ELSE Over(<<emu, 1>>, <<FactorOf(unit), 1>>)

\* An expression with a unit parsed by to_emu and the result projected back
\* to the unit.
RoundTrip(token, unit, r) ==
  [Projection("round_trip", <<>>, token, unit, None, r)
     EXCEPT !.total = Total(ProjectBack(r.emu, unit))]

CallRoundTrip ==
  /\ last.op = "none"
  /\ \E token \in DecimalTokens \cup WholeTokens, unit \in UnitSuffixes :
       last' = RoundTrip(token, unit, to_emu(Expression(<<>>, token, unit), None))
  /\ UNCHANGED <<fs, calls, batchVars>>

\* A helper applied to a number and the inverse helper to the result.
CallHelperPair ==
  /\ last.op = "none"
  /\ \E h \in 0..(100 * MaxWhole + 99),
        pair \in {"inches_to_cm", "cm_to_inches", "points_to_inches",
                  "inches_to_points", "px_to_emu", "emu_to_px"} :
       LET x == Frac(h, 100)
           y == CASE pair = "inches_to_cm" -> cm_to_inches(inches_to_cm(x))
                  [] pair = "cm_to_inches" -> inches_to_cm(cm_to_inches(x))
                  [] pair = "points_to_inches" -> inches_to_points(points_to_inches(x))
                  [] pair = "inches_to_points" -> points_to_inches(inches_to_points(x))
                  [] pair = "px_to_emu" -> emu_to_px(px_to_emu(x))
                  [] pair = "emu_to_px" -> px_to_emu(emu_to_px(x))
       IN  last' = [Projection("helper_pair", <<>>, Token(<<>>, TRUE, x),
                               <<>>, Total(y), Returns(0))
                      EXCEPT !.status = pair]
  /\ UNCHANGED <<fs, calls, batchVars>>

NextUnits ==
  \/ CallToEmu \/ CallToInches \/ CallToCm \/ CallToPoints \/ CallWithNumber
  \/ CallRoundTrip \/ CallHelperPair

SpecUnits == InitUnits /\ [][NextUnits]_vars

----------------------------------------------------------------------------
(* Claims about UnitConverter (checked under SpecUnits). *)

Projectors == {"to_emu", "to_inches", "to_cm", "to_points"}

\* The number the expression of a projection denotes.
Denoted(c) ==
  IF c.sign = <<"-">> THEN <<-c.token.number[1], c.token.number[2]>>
  ELSE c.token.number

\* a - b on fractions
Minus(a, b) == Frac(a[1] * b[2] - b[1] * a[2], a[2] * b[2])

\* C12 (as claimed): to_emu returns the exact product, truncated toward
\* zero: of the number and the factor of its unit, of the number alone when
\* there is no unit, of the percentage and the total.
C12_ToEmuExactTruncated ==
  /\ last.op = "to_emu" /\ last.token.numeric /\ Lower(last.suffix) \in UnitSuffixes =>
       /\ last.status = "ok"
       /\ last.emu = Trunc(Times(Denoted(last), <<FactorOf(Lower(last.suffix)), 1>>))
  /\ last.op \in {"to_emu", "to_emu(number)"} /\ last.token.numeric /\ last.suffix = <<>> =>
       /\ last.status = "ok"
       /\ last.emu = Trunc(Denoted(last))
  /\ last.op = "to_emu" /\ last.token.numeric /\ last.suffix = <<"%">> /\ last.total.given =>
       /\ last.status = "ok"
       /\ last.emu = Trunc(Times(Over(Denoted(last), <<100, 1>>), last.total.number))

\* C13 (as claimed): a percentage without a total makes every projector
\* raise; none returns a length.
C13_PercentWithoutTotalFails ==
  last.op \in Projectors /\ last.suffix = <<"%">> /\ ~last.total.given =>
    last.status \in {InvalidFormat, FloatError}

\* C14 (as claimed): a number followed by a suffix that is not a unit makes
\* every projector raise the unsupported-unit error.
C14_UnknownSuffixFails ==
  last.op \in Projectors /\ last.token.numeric /\ last.suffix \in OtherSuffixes =>
    last.status = UnsupportedUnit

C16_ProjectorsAgree ==
  last.op \in {"to_inches", "to_cm", "to_points"} /\ last.token.numeric
      /\ Lower(last.suffix) \in UnitSuffixes =>
    /\ last.status = "ok"
    /\ Abs(last.emu - Trunc(Times(Denoted(last),
                                  <<FactorOf(Lower(last.suffix)), 1>>))) <= 1

\* |back - v| <= v / 10^6
WithinTolerance(back, v) ==
  LET d == Minus(back, v)
      rel == Over(<<Abs(d[1]), d[2]>>, v)
  IN  rel[1] * 1000000 <= rel[2]

\* C17 (as claimed): a positive number with a unit, parsed by to_emu and
\* projected back to the unit, is the number again within a relative
\* tolerance of 10^-6; each helper undoes its inverse.
C17_RoundTrip ==
  /\ last.op = "round_trip" /\ last.token.number[1] > 0 =>
       /\ last.status = "ok"
       /\ WithinTolerance(last.total.number, last.token.number)
  /\ last.op = "helper_pair" /\ last.token.number[1] > 0 =>
       WithinTolerance(last.total.number, last.token.number)

----------------------------------------------------------------------------
(* Output names: cleanup_filename and the synthesis of a default output    *)
(* name (main.py lines 31-80).  A name is a sequence of characters.        *)

\* The operation names of the pattern of main.py line 42
PatternTags ==
  {<<"s", "v", "g">>, <<"d", "e", "l", "e", "t", "e", "d">>,
   <<"i", "n", "s", "e", "r", "t", "e", "d">>, <<"o", "u", "t", "p", "u", "t">>}

\* \d{8} and \d{6} of the pattern
DateDigits == 8
TimeDigits == 6

\* s has n digits from position p on
DigitsAt(s, p, n) ==
  /\ p + n - 1 <= Len(s)
  /\ \A k \in p..(p + n - 1) : IsDigit(s[k])

\* A pattern that takes four digits for the time.
TagAt_FourDigitTime(s, p) ==
  LET tags == {t \in PatternTags :
                 /\ p + Len(t) + 1 <= Len(s)
                 /\ s[p] = "_"
                 /\ SubSeq(s, p + 1, p + Len(t)) = t
                 /\ s[p + Len(t) + 1] = "_"
                 /\ DigitsAt(s, p + Len(t) + 2, DateDigits)
                 /\ p + Len(t) + 2 + DateDigits <= Len(s)
                 /\ s[p + Len(t) + 2 + DateDigits] = "_"
                 /\ DigitsAt(s, p + Len(t) + 3 + DateDigits, 4)}
  IN  IF tags = {} THEN 0
      ELSE Len(CHOOSE t \in tags : TRUE) + 3 + DateDigits + 4

\* The length of the match of _(svg|deleted|inserted|output)_\d{8}_\d{6}
\* at position p of s, 0 when there is none.
TagAt(s, p) ==
  LET tags == {t \in PatternTags :
                 /\ p + Len(t) + 1 <= Len(s)
                 /\ s[p] = "_"
                 /\ SubSeq(s, p + 1, p + Len(t)) = t
                 /\ s[p + Len(t) + 1] = "_"
                 /\ DigitsAt(s, p + Len(t) + 2, DateDigits)
                 /\ p + Len(t) + 2 + DateDigits <= Len(s)
                 /\ s[p + Len(t) + 2 + DateDigits] = "_"
                 /\ DigitsAt(s, p + Len(t) + 3 + DateDigits, TimeDigits)}
  IN  IF tags = {} THEN 0
      ELSE Len(CHOOSE t \in tags : TRUE) + 3 + DateDigits + TimeDigits

\* re.sub(pattern, '', filename): the matches, found from left to right in
\* one pass, are dropped (main.py line 43)
RECURSIVE RemoveTags(_)
RemoveTags(s) ==
  IF s = <<>> THEN <<>>
  ELSE IF TagAt(s, 1) > 0 THEN RemoveTags(SubSeq(s, TagAt(s, 1) + 1, Len(s)))
  ELSE <<s[1]>> \o RemoveTags(Tail(s))

\* re.sub(r'_{2,}', '_', cleaned) (main.py line 46)
RECURSIVE CollapseUnderscores(_)
CollapseUnderscores(s) ==
  IF Len(s) < 2 THEN s
  ELSE IF s[1] = "_" /\ s[2] = "_" THEN CollapseUnderscores(Tail(s))
  ELSE <<s[1]>> \o CollapseUnderscores(Tail(s))

\* cleaned.rstrip('_') (main.py line 49)
RECURSIVE RStrip(_, _)
RStrip(s, c) ==
  IF s # <<>> /\ s[Len(s)] = c THEN RStrip(SubSeq(s, 1, Len(s) - 1), c) ELSE s

\* cleanup_filename (main.py lines 31-52)
cleanup_filename(filename) ==
  RStrip(CollapseUnderscores(RemoveTags(filename)), "_")

\* The default output name: the cleaned base name, the operation tag and
\* the timestamp (main.py lines 71-76; 134-137, 292-295, 590-593, 699-702)
Synthesize(base_name, op_type, timestamp) ==
  cleanup_filename(base_name) \o <<"_">> \o op_type \o <<"_">> \o timestamp

\* strftime("%Y%m%d_%H%M%S") at two moments
Timestamps ==
  {<<"2", "0", "2", "4", "0", "1", "0", "1", "_", "1", "2", "0", "0", "0", "0">>,
   <<"2", "0", "2", "4", "0", "5", "2", "9", "_", "1", "5", "3", "0", "4", "5">>}

\* Bound: the base names have up to MaxBaseLen characters.
MaxBaseLen == 3

NameChars == {"d", "k", "1", "_"}

RECURSIVE NamesOfLen(_)
NamesOfLen(n) ==
  IF n = 0 THEN {<<>>}
  ELSE {Append(b, c) : b \in NamesOfLen(n - 1), c \in NameChars}

BaseNames == UNION {NamesOfLen(n) : n \in 1..MaxBaseLen}

\* SpecNames: a default output name synthesized from a base name, a second
\* one synthesized from the first, and the second one cleaned, twice.
CallSynthesizeTwice ==
  /\ last.op = "none"
  /\ \E b \in BaseNames, t1 \in PatternTags, t2 \in PatternTags,
        ts1 \in Timestamps, ts2 \in Timestamps :
       LET first == Synthesize(b, t1, ts1)
           second == Synthesize(first, t2, ts2)
           once == cleanup_filename(second)
       IN  last' = [op |-> "synthesize_twice", base |-> b, t1 |-> t1,
                    t2 |-> t2, first |-> first, second |-> second,
                    once |-> once, twice |-> cleanup_filename(once)]
  /\ UNCHANGED <<fs, calls, batchVars>>

\* Bound: a name handed to cleanup_filename is made of up to MaxPieces pieces.
MaxPieces == 3

\* What a name is made of: a letter, an underscore, an operation name with
\* its underscore, a timestamp with its underscore, and whole tags.
NamePieces ==
  {<<"d">>, <<"_">>, <<"_", "s", "v", "g">>,
   <<"_">> \o CHOOSE ts \in Timestamps : ts[6] = "1",
   <<"_", "s", "v", "g", "_">> \o (CHOOSE ts \in Timestamps : ts[6] = "1"),
   <<"_", "d", "e", "l", "e", "t", "e", "d", "_">> \o (CHOOSE ts \in Timestamps : ts[6] = "5")}

RECURSIVE NamesOfPieces(_)
NamesOfPieces(n) ==
  IF n = 0 THEN {<<>>}
  ELSE {b \o c : b \in NamesOfPieces(n - 1), c \in NamePieces}

FileNames == UNION {NamesOfPieces(n) : n \in 1..MaxPieces}

\* cleanup_filename applied to a name, and to its own result.
CallCleanupFilename ==
  /\ last.op = "none"
  /\ \E filename \in FileNames :
       last' = [op |-> "cleanup_filename", filename |-> filename,
                once |-> cleanup_filename(filename),
                twice |-> cleanup_filename(cleanup_filename(filename))]
  /\ UNCHANGED <<fs, calls, batchVars>>

NextNames == CallSynthesizeTwice \/ CallCleanupFilename

SpecNames == InitUnits /\ [][NextNames]_vars

\* A name without doubled or trailing underscore (and, being short, without
\* a tag): nothing for cleanup_filename to remove.
IsPlain(b) ==
  /\ b[Len(b)] # "_"
  /\ \A k \in 1..(Len(b) - 1) : ~(b[k] = "_" /\ b[k + 1] = "_")

HasTag(s) == \E p \in 1..Len(s) : TagAt(s, p) > 0

\* C21: whatever the name, the name cleanup_filename returns holds no tag of
\* the pattern, no run of underscores and no trailing underscore, and
\* cleanup_filename returns it unchanged.
C21_CleanupIdempotent ==
  last.op = "cleanup_filename" =>
    /\ ~HasTag(last.once)
    /\ CollapseUnderscores(last.once) = last.once
    /\ RStrip(last.once, "_") = last.once
    /\ last.twice = last.once

----------------------------------------------------------------------------
(* Claims checked under SpecBatch: what passes the tool boundary           *)

\* C19: a call of insert_svg on a list never ends with an exception passing
\* the tool boundary: every failure of one of its steps, the creation of
\* the scratch directory included, ends the call with a returned status.
C19_EveryFailureReturned ==
  pc # "raised"

\* C22: an item is reported as added to its slide, and counted in the
\* success count, exactly when its insertion succeeded; an item whose
\* insertion returned an error message is reported and counted as failed.
C22_CountedIffInserted ==
  /\ Len(result_messages) = Len(attempts)
  /\ \A k \in 1..Len(attempts) :
       result_messages[k].added <=> attempts[k].ok
  /\ success_count = Cardinality({k \in 1..Len(attempts) : attempts[k].ok})

----------------------------------------------------------------------------
(* SpecRuns: two calls of insert_svg with a list of paths, running at the  *)
(* same time on one file system (main.py lines 184-251), their loop and    *)
(* cleanup iterations interleaved.  In this specification pc, args, i,     *)
(* current_input, attempts and logged hold one value per run; the steps    *)
(* meet no failure of the environment (those are the matter of SpecBatch). *)

Runs == {1, 2}

\* Bounds: a run has up to MaxRunItems items; the runs start in the seconds
\* 0..MaxSecond.
MaxRunItems == 2
MaxSecond == 1

\* datetime.now().strftime('%Y%m%d_%H%M%S') of main.py line 193: the second
Seconds == 0..MaxSecond

\* f"{temp_base}_step_{i}.pptx" (main.py lines 193, 205, 240): temp_base is
\* the scratch directory, "svg_batch_" and the second the run started in
ScratchPath(temp_base, k) == <<"tmp_step", temp_base, k>>

IsScratch(p) == p[1] = "tmp_step"

RunPaths ==
  {PptxPath, DefaultPptxPath, OutPath, DefaultOutPath}
    \cup {ScratchPath(t, k) : t \in Seconds, k \in 0..(MaxRunItems - 1)}

\* The SVG arguments of a run: n files that exist, graphic 10 * run + k in
\* item k.
RunSvgs(r, n) == [k \in 1..n |-> [g |-> 10 * r + k, exists |-> TRUE, word |-> FALSE]]

\* The runs write their result over their document; the second run works
\* on the document of the first or on another one.  temp_base, a local of
\* the handler, is kept with the arguments; it is set on entry of the branch.
InitRuns ==
  /\ \E d \in {Pptx(Blank(k)) : k \in 1..MaxLen} :
       fs = [p \in RunPaths |-> IF p \in {PptxPath, OutPath} THEN d ELSE Absent]
  /\ \E n1 \in 1..MaxRunItems, n2 \in 1..MaxRunItems, other \in {PptxPath, OutPath} :
       args = [r \in Runs |->
                 [pptx_path |-> IF r = 1 THEN PptxPath ELSE other,
                  output_path |-> IF r = 1 THEN PptxPath ELSE other,
                  svg_path |-> RunSvgs(r, IF r = 1 THEN n1 ELSE n2),
                  slide_number |-> 1, create_if_not_exists |-> FALSE,
                  temp_base |-> 0]]
  /\ pc = [r \in Runs |-> "start"]
  /\ i = [r \in Runs |-> 0]
  /\ current_input = [r \in Runs |-> NoPath]
  /\ attempts = [r \in Runs |-> <<>>]
  /\ logged = [r \in Runs |-> {}]
  /\ calls = 0
  /\ last = NoCall
  /\ success_count = 0
  /\ result_messages = <<>>
  /\ ret = [kind |-> "none"]
  /\ faults = 0

runVars == <<calls, last, success_count, result_messages, ret, faults>>

\* The seconds the clock may show to a run that starts now: not before the
\* second of a run that started earlier.
Now == {t \in Seconds : \A q \in Runs : pc[q] # "start" => args[q].temp_base <= t}

\* main.py lines 184-197 for run r
RunEnter(r) ==
  /\ pc[r] = "start"
  /\ \E t \in Now : args' = [args EXCEPT ![r].temp_base = t]
  /\ pc' = [pc EXCEPT ![r] = "loop"]
  /\ current_input' = [current_input EXCEPT ![r] = args[r].pptx_path]
  /\ UNCHANGED <<fs, i, attempts, logged, runVars>>

\* main.py lines 203-220 for item k of a run with arguments a
RunStepOutput(a, k) ==
  IF k < Len(a.svg_path) - 1 THEN ScratchPath(a.temp_base, k)
  ELSE IF a.output_path # NoPath THEN a.output_path ELSE a.pptx_path

\* One iteration of the loop of main.py lines 199-236, for run r
RunStep(r) ==
  /\ pc[r] = "loop"
  /\ fs' = process_single_svg(fs, current_input[r], args[r].svg_path[i[r] + 1],
                              args[r].slide_number + i[r],
                              RunStepOutput(args[r], i[r]),
                              args[r].create_if_not_exists, "none").fs
  /\ attempts' = [attempts EXCEPT ![r] = Append(@,
       [item |-> i[r] + 1, input |-> current_input[r],
        output |-> RunStepOutput(args[r], i[r]),
        before |-> fs[current_input[r]],
        after |-> fs'[RunStepOutput(args[r], i[r])]])]
  /\ current_input' = [current_input EXCEPT ![r] =
       IF i[r] < Len(args[r].svg_path) - 1
         THEN RunStepOutput(args[r], i[r]) ELSE @]
  /\ IF i[r] + 1 = Len(args[r].svg_path)
       THEN pc' = [pc EXCEPT ![r] = "cleanup"] /\ i' = [i EXCEPT ![r] = 0]
       ELSE pc' = pc /\ i' = [i EXCEPT ![r] = @ + 1]
  /\ UNCHANGED <<args, logged, runVars>>

\* One iteration of the cleanup loop of main.py lines 239-245, for run r;
\* logged: the scratch files the run has removed
RunCleanupStep(r) ==
  /\ pc[r] = "cleanup"
  /\ i[r] < Len(args[r].svg_path) - 1
  /\ IF fs[ScratchPath(args[r].temp_base, i[r])].kind # "absent"
       THEN /\ fs' = [fs EXCEPT ![ScratchPath(args[r].temp_base, i[r])] = Absent]
            /\ logged' = [logged EXCEPT ![r] = @ \cup {ScratchPath(args[r].temp_base, i[r])}]
       ELSE UNCHANGED <<fs, logged>>
  /\ i' = [i EXCEPT ![r] = @ + 1]
  /\ UNCHANGED <<pc, args, current_input, attempts, runVars>>

\* main.py lines 247-251, for run r
RunReturn(r) ==
  /\ pc[r] = "cleanup"
  /\ ~(i[r] < Len(args[r].svg_path) - 1)
  /\ pc' = [pc EXCEPT ![r] = "returned"]
  /\ UNCHANGED <<fs, args, i, current_input, attempts, logged, runVars>>

NextRuns ==
  \E r \in Runs : RunEnter(r) \/ RunStep(r) \/ RunCleanupStep(r) \/ RunReturn(r)

SpecRuns == InitRuns /\ [][NextRuns]_vars

\* The scratch paths run r has read, written or removed so far.
Touched(r) ==
  {p \in {attempts[r][k].input : k \in 1..Len(attempts[r])}
         \cup {attempts[r][k].output : k \in 1..Len(attempts[r])}
         \cup logged[r] : IsScratch(p)}

\* C23: the scratch paths of the steps of a run are distinct, the runs
\* touch no scratch path in common, and a step that reads a scratch
\* snapshot finds what the step before it, of its own run, left there.
C23_ScratchPathsDoNotCollide ==
  /\ \A r \in Runs : \A j, k \in 1..Len(attempts[r]) :
       j # k /\ IsScratch(attempts[r][j].output) =>
         attempts[r][j].output # attempts[r][k].output
  /\ \A r, q \in Runs : r # q => Touched(r) \cap Touched(q) = {}
  /\ \A r \in Runs : \A k \in 2..Len(attempts[r]) :
       attempts[r][k].before = attempts[r][k - 1].after

====
